---- MODULE Spec2Model ----
(***************************************************************************)
(* TaskMaster Pro: the task inference and priority scheduling engine.      *)
(*                                                                         *)
(*   SchedulingService  (services/SchedulingService.ts)                    *)
(*   GeminiService      (services/GeminiService.ts, kept as part_012)      *)
(*   TaskMasterPro      (TaskMasterPro.tsx) with its hooks                 *)
(*                      useTaskPlanning and useApiKeyManager               *)
(*                                                                         *)
(* Numbers.  Every score factor is a decimal with at most three places, so *)
(* factors and totals are integers counting thousandths (0.8 is 800).  The *)
(* weights are percentages.  Every product the scorer forms is a whole     *)
(* number of thousandths, so \div loses nothing.  The code computes in     *)
(* IEEE doubles; evaluated in doubles, the same expression falls on the    *)
(* same side of 0.8, 0.5, 0 and 1 as the exact decimal for every task with *)
(* at most three inference entries (which is all that the parsers, the     *)
(* field inference and the form build).  With four entries, three of them  *)
(* low and one medium, the double can exceed the decimal by one ulp; such  *)
(* tasks are scored here but never categorized.                            *)
(*                                                                         *)
(* Time.  Instants are whole hours since an arbitrary epoch; a Date is the *)
(* number of its hour.  new Date() and Date.now() read the variable clock. *)
(* Code that runs without an await in between runs at one instant: all its *)
(* readings of the clock agree.  The clock may advance at every await.     *)
(***************************************************************************)
EXTENDS Integers, Sequences, FiniteSets, TLC

VARIABLES
    clock,      \* the wall clock, in hours
    pc,         \* position of the running call
    tasks,      \* generateDailyPlan: the tasks argument
    planDate,   \* generateDailyPlan: the planDate argument
    settings,   \* generateDailyPlan: the settings argument
    scoredAt,   \* calculatePriorityScore: the instant `now` it read
    planned,    \* generateDailyPlan: plannedTasks, awaited from scheduleTasks
    plan,       \* the DailyPlan the call returned (NoPlan before)
    last,       \* the previous call on record: its arguments, readings, result
    score,      \* scorer harness: the PriorityScore of tasks[1]
    apiKey,     \* GeminiService._apiKey ("" is null)
    freeformText, \* parseFreeformTasks: its argument, a sequence of lines
    reply,      \* realGeminiParsing: what fetch settled with
    result,     \* the FreeformParseResult parseFreeformTasks returned
    structuredTask, \* inferTaskFields: its argument
    inferred,   \* inferTaskFields: the InferredTask it returned
    inferredAt, \* mockFieldInference: the instant Date.now() gave
    geminiApiKey, \* useApiKeyManager: the state apiKey
    freeformInput, \* useTaskPlanning: the state freeformInput
    structuredTasks, \* useTaskPlanning: the state structuredTasks
    isProcessing, \* useTaskPlanning: the state isProcessing
    error,      \* useTaskPlanning: the state error ("" is null)
    currentPlan \* useTaskPlanning: the state currentPlan (NoPlan is null)

planVars == <<tasks, planDate, settings, scoredAt, planned, plan>>
parseVars == <<apiKey, freeformText, reply, result>>

inferVars == <<structuredTask, inferred, inferredAt>>

appVars == <<geminiApiKey, freeformInput, structuredTasks, isProcessing,
             error, currentPlan>>

vars == <<clock, pc, tasks, planDate, settings, scoredAt, planned, plan, last, score,
          apiKey, freeformText, reply, result, structuredTask, inferred,
          inferredAt, geminiApiKey, freeformInput, structuredTasks,
          isProcessing, error, currentPlan>>

----------------------------------------------------------------------------
(* Bounds of the model *)

\* longest task list handed to generateDailyPlan
MaxTasks == 2
\* how many hours the clock may advance during a behaviour
MaxTicks == 2
\* the hour at which behaviours start (deadlines are placed around it)
T0 == 100

----------------------------------------------------------------------------
(* Values *)

\* task.deadline is undefined
NoDeadline == -1
\* new Date(<unparsable>): an Invalid Date, whose getTime() is NaN
InvalidDate == -2
\* a number that is NaN
NaN == -9999

Fields == <<"priority", "duration", "deadline", "category">>
FieldSet == {"priority", "duration", "deadline", "category"}
Confidences == {"low", "medium", "high"}
\* state of inferences[f]: the key is absent, holds undefined, or holds an
\* entry with that confidence
EntryStates == {"absent", "undefined"} \cup Confidences

NoInferences == [f \in FieldSet |-> "absent"]

NoPlan == [id |-> <<>>]
NoReply == [kind |-> "none"]
NoResult == [confidence |-> "none"]
NoScore == [total |-> -1]

\* an InferredTask; a title is the sequence of its words
InferredTask(id, title, priority, duration, deadline, inferences, hints) ==
    [id |-> id, title |-> title, priority |-> priority,
     duration |-> duration, deadline |-> deadline,
     inferences |-> inferences, conditionalHints |-> hints]

Task(id, priority, duration, deadline, inferences) ==
    InferredTask(id, <<"task">>, priority, duration, deadline, inferences,
                 <<>>)

----------------------------------------------------------------------------
(* SchedulingService.calculatePriorityScore *)

UrgentHours == 4
SoonHours == 24
NearHours == 72

\* a slip: the service remembers that it has planned before and then scores
\* every deadline as distant
UrgencyRemembered(task, now) ==
    IF plan # [id |-> <<>>] /\ task.deadline >= 0 THEN 300
    ELSE IF task.deadline = NoDeadline THEN 500
    ELSE IF task.deadline = InvalidDate THEN 300
    ELSE LET hoursToDeadline == task.deadline - now
         IN  IF hoursToDeadline < UrgentHours THEN 1000
             ELSE IF hoursToDeadline < SoonHours THEN 900
             ELSE IF hoursToDeadline < NearHours THEN 700
             ELSE 300

\* a slip: each boundary counted to the more urgent band
UrgencyInclusive(task, now) ==
    IF task.deadline = NoDeadline THEN 500
    ELSE IF task.deadline = InvalidDate THEN 300
    ELSE LET hoursToDeadline == task.deadline - now
         IN  IF hoursToDeadline <= UrgentHours THEN 1000
             ELSE IF hoursToDeadline <= SoonHours THEN 900
             ELSE IF hoursToDeadline <= NearHours THEN 700
             ELSE 300

\* lines 61-70.  NaN hours (an Invalid Date) fail all three comparisons.
Urgency(task, now) ==
    IF task.deadline = NoDeadline THEN 500
    ELSE IF task.deadline = InvalidDate THEN 300
    ELSE LET hoursToDeadline == task.deadline - now
         IN  IF hoursToDeadline < UrgentHours THEN 1000
             ELSE IF hoursToDeadline < SoonHours THEN 900
             ELSE IF hoursToDeadline < NearHours THEN 700
             ELSE 300

\* a slip: the priority is divided by 4, not 5
ImportanceOverFour(task) ==
    IF task.priority = 0 \/ task.priority = NaN THEN 600
    ELSE (task.priority * 1000) \div 4

\* line 72: task.priority ? task.priority / 5 : 0.6 (undefined, 0 and NaN
\* are falsy)
Importance(task) ==
    IF task.priority = 0 \/ task.priority = NaN THEN 600
    ELSE (task.priority * 1000) \div 5

\* Object.values(task.inferences): the values of the keys present, in order
RECURSIVE ObjectValuesFrom(_, _)
ObjectValuesFrom(inferences, i) ==
    IF i > Len(Fields) THEN <<>>
    ELSE IF inferences[Fields[i]] = "absent"
         THEN ObjectValuesFrom(inferences, i + 1)
         ELSE <<inferences[Fields[i]]>> \o ObjectValuesFrom(inferences, i + 1)

ObjectValues(inferences) == ObjectValuesFrom(inferences, 1)

\* inference.confidence on undefined is a TypeError
ThrowsOnInferences(task) ==
    \E f \in FieldSet : task.inferences[f] = "undefined"

\* a slip: the two penalties exchanged
PenaltyOfSwapped(confidence) ==
    IF confidence = "low" THEN 50
    ELSE IF confidence = "medium" THEN 100
    ELSE 0

\* a slip: only a low confidence is penalized
PenaltyOfLowOnly(confidence) ==
    IF confidence = "low" THEN 100 ELSE 0

\* lines 79-83
PenaltyOf(confidence) ==
    IF confidence = "low" THEN 100
    ELSE IF confidence = "medium" THEN 50
    ELSE 0

\* lines 77-84
RECURSIVE SumPenalty(_)
SumPenalty(values) ==
    IF values = <<>> THEN 0
    ELSE PenaltyOf(Head(values)) + SumPenalty(Tail(values))

UncertaintyPenalty(task) == SumPenalty(ObjectValues(task.inferences))

WeightUrgency == 30
WeightImportance == 25
WeightEffortFit == 15
WeightDependencyReady == 15
WeightSlackRisk == 15

Max(a, b) == IF a >= b THEN a ELSE b

\* a slip: importance weighted 0.20
BaseScoreLightImportance(urgency, importance, effortFit, dependencyReady, slackRisk) ==
      (urgency * WeightUrgency) \div 100
    + (importance * 20) \div 100
    + (effortFit * WeightEffortFit) \div 100
    + (dependencyReady * WeightDependencyReady) \div 100
    + (slackRisk * WeightSlackRisk) \div 100

\* lines 86-87
BaseScore(urgency, importance, effortFit, dependencyReady, slackRisk) ==
      (urgency * WeightUrgency) \div 100
    + (importance * WeightImportance) \div 100
    + (effortFit * WeightEffortFit) \div 100
    + (dependencyReady * WeightDependencyReady) \div 100
    + (slackRisk * WeightSlackRisk) \div 100

\* line 88
Total(baseScore, uncertaintyPenalty) == Max(0, baseScore - uncertaintyPenalty)

\* lines 54-99, for a task on which it does not throw
calculatePriorityScore(task, now) ==
    LET urgency == Urgency(task, now)
        importance == Importance(task)
        effortFit == 1000
        dependencyReady == 1000
        slackRisk == 1000
        uncertaintyPenalty == UncertaintyPenalty(task)
        baseScore == BaseScore(urgency, importance, effortFit,
                               dependencyReady, slackRisk)
    IN  [urgency |-> urgency,
         importance |-> importance,
         effortFit |-> effortFit,
         dependencyReady |-> dependencyReady,
         slackRisk |-> slackRisk,
         uncertaintyPenalty |-> uncertaintyPenalty,
         total |-> Total(baseScore, uncertaintyPenalty)]

----------------------------------------------------------------------------
(* SchedulingService: sort, scheduleTasks, categorizeTasks, overdue *)

\* a sort that is not stable: an item goes before the items of equal total
RECURSIVE InsertByTotalBeforeEquals(_, _)
InsertByTotalBeforeEquals(item, sorted) ==
    IF sorted = <<>> THEN <<item>>
    ELSE IF Head(sorted).score.total > item.score.total
         THEN <<Head(sorted)>> \o InsertByTotalBeforeEquals(item, Tail(sorted))
         ELSE <<item>> \o sorted

\* line 34: Array.prototype.sort with (a, b) => b.score.total - a.score.total
\* is a stable sort, descending by total
RECURSIVE InsertByTotal(_, _)
InsertByTotal(item, sorted) ==
    IF sorted = <<>> THEN <<item>>
    ELSE IF Head(sorted).score.total >= item.score.total
         THEN <<Head(sorted)>> \o InsertByTotal(item, Tail(sorted))
         ELSE <<item>> \o sorted

RECURSIVE SortByTotal(_)
SortByTotal(items) ==
    IF items = <<>> THEN <<>>
    ELSE InsertByTotal(items[Len(items)],
                       SortByTotal(SubSeq(items, 1, Len(items) - 1)))

\* a slip: the importance phrase pushed before the urgency phrase
ReasonsImportanceFirst(s) ==
    (IF s.importance > 800 THEN <<"high priority">>
     ELSE IF s.importance < 400 THEN <<"lower priority">> ELSE <<>>)
    \o (IF s.urgency > 800 THEN <<"urgent deadline">>
        ELSE IF s.urgency > 600 THEN <<"approaching deadline">> ELSE <<>>)
    \o (IF s.uncertaintyPenalty > 100
        THEN <<"adjusted for inference uncertainty">> ELSE <<>>)

\* a slip: "approaching deadline" only above 0.7
ReasonsApproachingAbove(s) ==
    (IF s.urgency > 800 THEN <<"urgent deadline">>
     ELSE IF s.urgency > 700 THEN <<"approaching deadline">> ELSE <<>>)
    \o (IF s.importance > 800 THEN <<"high priority">>
        ELSE IF s.importance < 400 THEN <<"lower priority">> ELSE <<>>)
    \o (IF s.uncertaintyPenalty > 100
        THEN <<"adjusted for inference uncertainty">> ELSE <<>>)

\* lines 168-184: the triggered phrases, in the order pushed
Reasons(s) ==
    (IF s.urgency > 800 THEN <<"urgent deadline">>
     ELSE IF s.urgency > 600 THEN <<"approaching deadline">> ELSE <<>>)
    \o (IF s.importance > 800 THEN <<"high priority">>
        ELSE IF s.importance < 400 THEN <<"lower priority">> ELSE <<>>)
    \o (IF s.uncertaintyPenalty > 100
        THEN <<"adjusted for inference uncertainty">> ELSE <<>>)

\* Array.prototype.join
RECURSIVE Join(_, _)
Join(strings, separator) ==
    IF strings = <<>> THEN ""
    ELSE IF Len(strings) = 1 THEN strings[1]
    ELSE strings[1] \o separator \o Join(Tail(strings), separator)

\* lines 167-189
generateSchedulingReason(s) ==
    IF Len(Reasons(s)) > 0
    THEN "Scheduled due to " \o Join(Reasons(s), ", ") \o "."
    ELSE "Scheduled based on availability."

\* lines 191-201: the fields inferred with low or medium confidence
RECURSIVE AssumptionsFrom(_, _)
AssumptionsFrom(inferences, i) ==
    IF i > Len(Fields) THEN <<>>
    ELSE (IF inferences[Fields[i]] \in {"low", "medium"}
          THEN <<Fields[i]>> ELSE <<>>)
         \o AssumptionsFrom(inferences, i + 1)

extractAssumptions(task) == AssumptionsFrom(task.inferences, 1)

\* lines 101-134
scheduleTasks(scoredTasks) ==
    [i \in 1..Len(scoredTasks) |->
        [task |-> scoredTasks[i].task,
         priorityScore |-> scoredTasks[i].score,
         schedulingReason |-> generateSchedulingReason(scoredTasks[i].score),
         assumptions |-> extractAssumptions(scoredTasks[i].task)]]

\* a slip: the thresholds taken inclusively
SectionOfInclusive(priorityScore) ==
    IF priorityScore.urgency >= 800 \/ priorityScore.total >= 800 THEN "now"
    ELSE IF priorityScore.total >= 500 THEN "next"
    ELSE "later"

\* a slip: the urgency alone puts no task in now
SectionOfTotalOnly(priorityScore) ==
    IF priorityScore.total > 800 THEN "now"
    ELSE IF priorityScore.total > 500 THEN "next"
    ELSE "later"

\* lines 148-154
SectionOf(priorityScore) ==
    IF priorityScore.urgency > 800 \/ priorityScore.total > 800 THEN "now"
    ELSE IF priorityScore.total > 500 THEN "next"
    ELSE "later"

RECURSIVE SelectSection(_, _)
SelectSection(plannedTasks, section) ==
    IF plannedTasks = <<>> THEN <<>>
    ELSE (IF SectionOf(Head(plannedTasks).priorityScore) = section
          THEN <<Head(plannedTasks)>> ELSE <<>>)
         \o SelectSection(Tail(plannedTasks), section)

\* a slip: three independent ifs instead of an if / else-if / else chain
categorizeTasksIndependentIfs(plannedTasks) ==
    LET isNow(p) == p.priorityScore.urgency > 800 \/ p.priorityScore.total > 800
        isNext(p) == p.priorityScore.total > 500
        isLater(p) == p.priorityScore.total <= 500
    IN  [now |-> SelectSeq(plannedTasks, isNow),
         next |-> SelectSeq(plannedTasks, isNext),
         later |-> SelectSeq(plannedTasks, isLater)]

\* lines 136-158
categorizeTasks(plannedTasks) ==
    [now |-> SelectSection(plannedTasks, "now"),
     next |-> SelectSection(plannedTasks, "next"),
     later |-> SelectSection(plannedTasks, "later")]

\* a slip: a deadline at the current instant counted as passed
IsOverdueInclusive(task, now) ==
    /\ task.deadline # NoDeadline
    /\ task.deadline # InvalidDate
    /\ task.deadline <= now

\* a slip: overdue counted against the date the plan is for
IsOverdueAtPlanDate(task, now) ==
    /\ task.deadline # NoDeadline
    /\ task.deadline # InvalidDate
    /\ task.deadline < planDate

\* line 163: task.task.deadline && task.task.deadline < now (an Invalid Date
\* compares false)
IsOverdue(task, now) ==
    /\ task.deadline # NoDeadline
    /\ task.deadline # InvalidDate
    /\ task.deadline < now

\* lines 160-165
RECURSIVE identifyOverdueTasks(_, _)
identifyOverdueTasks(plannedTasks, now) ==
    IF plannedTasks = <<>> THEN <<>>
    ELSE (IF IsOverdue(Head(plannedTasks).task, now)
          THEN <<Head(plannedTasks)>> ELSE <<>>)
         \o identifyOverdueTasks(Tail(plannedTasks), now)

\* a sum that counts a missing duration as half an hour
RECURSIVE TotalDurationHalfHourDefault(_)
TotalDurationHalfHourDefault(ts) ==
    IF ts = <<>> THEN 0
    ELSE (IF Head(ts).duration = NaN \/ Head(ts).duration = 0
          THEN 30 ELSE Head(ts).duration)
         + TotalDurationHalfHourDefault(Tail(ts))

\* line 48: sum of task.duration || 0 (undefined, 0 and NaN are falsy)
RECURSIVE TotalDuration(_)
TotalDuration(ts) ==
    IF ts = <<>> THEN 0
    ELSE (IF Head(ts).duration = NaN THEN 0 ELSE Head(ts).duration)
         + TotalDuration(Tail(ts))

----------------------------------------------------------------------------
(* GeminiService.parseTaskLine: the local heuristic strategy, line by line *)

(* A line is the sequence of its words; the regular expressions of the code *)
(* are matched word by word.  A word removed by String.replace leaves the   *)
(* empty word behind: the blanks on both sides of it stay in the string.    *)

UrgentWords == {"urgent", "asap", "critical", "!!!"}
ImportantWords == {"important", "high", "!!"}
LowWords == {"low", "minor"}
HourUnits == {"hour", "hours", "hr", "hrs"}
MinuteUnits == {"min", "mins", "minute", "minutes"}
ComplexWords == {"research", "analyze", "develop", "create"}
MediumWords == {"write", "review", "plan"}

\* parseInt of the words that are digit strings
NumberValue == [w \in {"2", "30", "90"} |->
                   IF w = "2" THEN 2 ELSE IF w = "30" THEN 30 ELSE 90]

IsNumber(w) == w \in DOMAIN NumberValue

HasWord(line, words) == \E i \in 1..Len(line) : line[i] \in words

\* /low|minor|when time/
HasLowIndicator(line) ==
    \/ HasWord(line, LowWords)
    \/ \E i \in 1..(Len(line) - 1) : line[i] = "when" /\ line[i + 1] = "time"

\* line.length: the characters of the words and one blank between them
RECURSIVE LineLength(_)
LineLength(line) ==
    IF line = <<>> THEN 0
    ELSE Len(Head(line)) + (IF Len(line) > 1 THEN 1 ELSE 0)
         + LineLength(Tail(line))

\* the next word at or after position i that is not empty (0: none)
RECURSIVE NextWord(_, _)
NextWord(line, i) ==
    IF i > Len(line) THEN 0
    ELSE IF line[i] # "" THEN i
    ELSE NextWord(line, i + 1)

\* /(\d+)\s*(hour|hr|min|minute)s?/ matched at word i: a number, then, after
\* any blanks, a unit
DurationAt(line, i) ==
    /\ IsNumber(line[i])
    /\ NextWord(line, i + 1) # 0
    /\ line[NextWord(line, i + 1)] \in HourUnits \cup MinuteUnits

\* the leftmost match of the duration pattern (0: none)
DurationMatch(line) ==
    IF \E i \in 1..Len(line) : DurationAt(line, i)
    THEN CHOOSE i \in 1..Len(line) :
            /\ DurationAt(line, i)
            /\ \A j \in 1..(i - 1) : ~DurationAt(line, j)
    ELSE 0

\* /(today|tomorrow|by (\w+)|due (\w+))/ matched at word i; "by" and "due"
\* need exactly one blank and a word after them
DeadlineAt(line, i) ==
    \/ line[i] \in {"today", "tomorrow"}
    \/ /\ line[i] \in {"by", "due"}
       /\ i < Len(line)
       /\ line[i + 1] \notin {"", "!!!", "!!"}

\* deadlineMatch[1] of the leftmost match: "today", "tomorrow", "other" for
\* a "by <word>" or "due <word>", "none" without a match
DeadlineMatch(line) ==
    IF \E i \in 1..Len(line) : DeadlineAt(line, i)
    THEN LET i == CHOOSE k \in 1..Len(line) :
                     /\ DeadlineAt(line, k)
                     /\ \A j \in 1..(k - 1) : ~DeadlineAt(line, j)
         IN  IF line[i] \in {"today", "tomorrow"} THEN line[i] ELSE "other"
    ELSE "none"

HoursPerDay == 24
EndOfWorkDay == 17

\* new Date(year, month, date, 17, 0) of the day of `now`
TodayAtFive(now) == (now \div HoursPerDay) * HoursPerDay + EndOfWorkDay

\* lines 345-349, first replace: the keyword words go
StripKeywords(line) ==
    [i \in 1..Len(line) |->
        IF line[i] \in {"urgent", "asap", "critical", "important", "high",
                        "low", "minor", "!!", "!!!"}
        THEN "" ELSE line[i]]

\* second replace: every number with its unit goes, left to right
RECURSIVE StripDurationsFrom(_, _)
StripDurationsFrom(line, i) ==
    IF i > Len(line) THEN line
    ELSE IF DurationAt(line, i)
         THEN LET u == NextWord(line, i + 1)
              IN  StripDurationsFrom(
                      [line EXCEPT ![i] = "", ![u] = ""], u + 1)
         ELSE StripDurationsFrom(line, i + 1)

StripDurations(line) == StripDurationsFrom(line, 1)

\* third replace: every today, tomorrow, "by <word>", "due <word>" goes
RECURSIVE StripDeadlinesFrom(_, _)
StripDeadlinesFrom(line, i) ==
    IF i > Len(line) THEN line
    ELSE IF DeadlineAt(line, i)
         THEN IF line[i] \in {"today", "tomorrow"}
              THEN StripDeadlinesFrom([line EXCEPT ![i] = ""], i + 1)
              ELSE StripDeadlinesFrom(
                       [line EXCEPT ![i] = "", ![i + 1] = ""], i + 2)
         ELSE StripDeadlinesFrom(line, i + 1)

StripDeadlines(line) == StripDeadlinesFrom(line, 1)

\* .replace(/\s+/g, ' ').trim(): the words that are left
Squeeze(line) == SelectSeq(line, LAMBDA w : w # "")

\* line 242: the lines of the text that are not blank
NonBlankLines(text) == SelectSeq(text, LAMBDA line : Squeeze(line) # <<>>)

\* lines 344-349
CleanTitle(line) == Squeeze(StripDeadlines(StripDurations(StripKeywords(line))))

\* lines 459-475
generateConditionalHints(priority, duration) ==
    (IF priority >= 4 THEN <<"rescheduled if priority drops">> ELSE <<>>)
    \o (IF duration > 90 THEN <<"may be split">> ELSE <<>>)
    \o (IF priority <= 2 THEN <<"after higher priority work">> ELSE <<>>)

NoTask == [id |-> 0]

\* lines 270-384; NoTask is null
parseTaskLine(line, now, id) ==
    LET priority ==
            IF HasWord(line, UrgentWords) THEN 5
            ELSE IF HasWord(line, ImportantWords) THEN 4
            ELSE IF HasLowIndicator(line) THEN 2
            ELSE 3
        priorityConfidence ==
            IF HasWord(line, UrgentWords) THEN "high"
            ELSE IF HasWord(line, ImportantWords) THEN "medium"
            ELSE IF HasLowIndicator(line) THEN "medium"
            ELSE "low"
        m == DurationMatch(line)
        duration ==
            IF m # 0
            THEN IF line[NextWord(line, m + 1)] \in HourUnits
                 THEN NumberValue[line[m]] * 60
                 ELSE NumberValue[line[m]]
            ELSE IF LineLength(line) > 100 \/ HasWord(line, ComplexWords)
                 THEN 120
            ELSE IF LineLength(line) > 50 \/ HasWord(line, MediumWords)
                 THEN 60
            ELSE 30
        durationConfidence == IF m # 0 THEN "high" ELSE "low"
        d == DeadlineMatch(line)
        deadline ==
            IF d = "today" THEN TodayAtFive(now)
            ELSE IF d = "tomorrow" THEN TodayAtFive(now) + HoursPerDay
            ELSE NoDeadline
        title == CleanTitle(line)
    IN  IF title = <<>> THEN NoTask
        ELSE InferredTask(id, title, priority, duration, deadline,
                 [NoInferences EXCEPT
                    !["priority"] = priorityConfidence,
                    !["duration"] = durationConfidence,
                    !["deadline"] = IF deadline # NoDeadline THEN "high"
                                    ELSE "absent"],
                 generateConditionalHints(priority, duration))

\* a loop that drops the lines parseTaskLine returns null for
RECURSIVE ParseLinesDropping(_, _, _)
ParseLinesDropping(lines, now, i) ==
    IF i > Len(lines) THEN [extractedTasks |-> <<>>, ambiguousLines |-> <<>>]
    ELSE LET rest == ParseLinesDropping(lines, now, i + 1)
             taskMatch == parseTaskLine(lines[i], now, i)
         IN  IF taskMatch # NoTask
             THEN [rest EXCEPT !.extractedTasks = <<taskMatch>> \o @]
             ELSE rest

\* lines 242-257: the lines that are not blank, each parsed or kept as
\* ambiguous.  The id of a task is the number of its line.
RECURSIVE ParseLines(_, _, _)
ParseLines(lines, now, i) ==
    IF i > Len(lines) THEN [extractedTasks |-> <<>>, ambiguousLines |-> <<>>]
    ELSE LET rest == ParseLines(lines, now, i + 1)
             taskMatch == parseTaskLine(lines[i], now, i)
         IN  IF taskMatch # NoTask
             THEN [rest EXCEPT !.extractedTasks = <<taskMatch>> \o @]
             ELSE [rest EXCEPT !.ambiguousLines = <<lines[i]>> \o @]

\* lines 238-265, once its timer has fired at `now`
mockGeminiParsing(text, now) ==
    LET lines == SelectSeq(text, LAMBDA line : Squeeze(line) # <<>>)
        parsed == ParseLines(lines, now, 1)
    IN  [extractedTasks |-> parsed.extractedTasks,
         ambiguousLines |-> parsed.ambiguousLines,
         parsingErrors |-> <<>>,
         confidence |-> IF Len(parsed.extractedTasks) > 0 THEN "medium"
                        ELSE "low"]

----------------------------------------------------------------------------
(* SchedulingService.generateDailyPlan *)

\* lines 29-36: everything the call does before its await.  Every task is
\* scored at the instant `now`, the scored list is sorted and handed to
\* scheduleTasks.
ScoredTasks(ts, now) ==
    [i \in 1..Len(ts) |-> [task |-> ts[i],
                           score |-> calculatePriorityScore(ts[i], now)]]

\* lines 37-51: what the call does once scheduleTasks has resolved; `now` is
\* the instant read at line 161 and again at lines 41 and 49
DailyPlan(ts, pd, plannedTasks, now) ==
    [id |-> <<pd, now>>,
     date |-> pd,
     sections |-> categorizeTasks(plannedTasks),
     ambiguousTasks |-> <<>>,
     overdueTasks |-> identifyOverdueTasks(plannedTasks, now),
     metadata |-> [totalTasks |-> Len(ts),
                   totalDuration |-> TotalDuration(ts),
                   planningDate |-> now]]

(* The tasks callers hand to generateDailyPlan. *)
PlanPool ==
    LET inf(p, d, dl) == [NoInferences EXCEPT !["priority"] = p,
                                              !["duration"] = d,
                                              !["deadline"] = dl]
    IN  { Task(1, 0, 0, NoDeadline, NoInferences),
          Task(2, 5, 30, NoDeadline, inf("medium", "absent", "absent")),
          Task(3, 5, 30, NoDeadline, NoInferences),
          Task(4, 2, 60, NoDeadline, inf("low", "low", "absent")),
          Task(5, 1, 120, T0 + NearHours, inf("absent", "low", "absent")),
          Task(6, 3, 15, T0 - 1, inf("high", "high", "high")),
          Task(7, 3, 45, T0 + UrgentHours, inf("low", "medium", "high")),
          Task(8, 1, 240, T0 + SoonHours, NoInferences),
          Task(9, 3, 60, T0, inf("medium", "medium", "low")),
          Task(10, NaN, 60, InvalidDate, inf("medium", "medium", "low")),
          Task(11, 3, 60, NoDeadline, inf("undefined", "medium", "undefined")),
          Task(12, 5, 30, T0 + UrgentHours, inf("low", "medium", "absent")),
          Task(13, 3, 30, T0 + SoonHours, NoInferences) }

RECURSIVE SeqsUpTo(_, _)
SeqsUpTo(S, n) ==
    IF n = 0 THEN {<<>>}
    ELSE LET shorter == SeqsUpTo(S, n - 1)
         IN  shorter \cup {Append(q, x) : q \in shorter, x \in S}

TaskLists == SeqsUpTo(PlanPool, MaxTasks)

NoLast == [calls |-> 0]

\* The caller invokes generateDailyPlan(ts, settings, pd).  An async function
\* TaskMasterPro.tsx lines 13-19; hours of the day, commitments as pairs of
\* instants
defaultSettings ==
    [workingHours |-> [start |-> 9, end |-> 17],
     weekendsEnabled |-> FALSE,
     focusBlockLength |-> 120,
     breakBuffer |-> 15,
     hardCommitments |-> <<>>]

\* the settings callers hand to generateDailyPlan
SettingsPool ==
    {defaultSettings,
     [defaultSettings EXCEPT
         !.workingHours = [start |-> 13, end |-> 21],
         !.weekendsEnabled = TRUE,
         !.hardCommitments = <<[startTime |-> T0, endTime |-> T0 + 2]>>]}

\* runs up to its first await at once: lines 29-36.  A TypeError in the
\* scorer rejects the returned promise.
Call(ts, pd) ==
    /\ tasks' = ts
    /\ planDate' = pd
    /\ scoredAt' = clock
    /\ IF \E i \in 1..Len(ts) : ThrowsOnInferences(ts[i])
       THEN /\ pc' = "threw"
            /\ planned' = <<>>
       ELSE /\ pc' = "scheduled"
            /\ planned' = scheduleTasks(SortByTotal(ScoredTasks(ts, clock)))
    /\ plan' = NoPlan
    /\ UNCHANGED <<clock, score>>

\* no call of inferTaskFields on record
InferIdle ==
    /\ structuredTask = NoTask
    /\ inferred = NoTask
    /\ inferredAt = T0

\* the state the hooks start with: useTaskPlanning lines 37-42,
\* useApiKeyManager line 19
AppIdle ==
    /\ geminiApiKey = ""
    /\ freeformInput = <<>>
    /\ structuredTasks = <<>>
    /\ isProcessing = FALSE
    /\ error = ""
    /\ currentPlan = NoPlan

\* the first call of a behaviour
FirstCall ==
    /\ pc = "idle"
    /\ last = NoLast
    /\ \E ts \in TaskLists, pd \in {clock, clock + SoonHours} :
          Call(ts, pd)
    /\ settings' = defaultSettings
    /\ UNCHANGED <<inferVars, appVars, last, parseVars>>

\* the continuation after `await this.scheduleTasks(...)`: lines 37-51
Resume ==
    /\ pc = "scheduled"
    /\ plan' = DailyPlan(tasks, planDate, planned, clock)
    /\ pc' = "returned"
    /\ UNCHANGED <<inferVars, appVars, clock, tasks, planDate, settings,
                   scoredAt, planned, last, score, parseVars>>

\* the caller keeps the outcome and calls again with the same task list
CallAgain ==
    /\ pc \in {"returned", "threw"}
    /\ last = NoLast
    /\ clock <= T0 + MaxTicks
    /\ last' = [calls |-> 1, tasks |-> tasks, planDate |-> planDate,
                settings |-> settings, scoredAt |-> scoredAt, plan |-> plan,
                threw |-> pc = "threw"]
    /\ \E pd \in {clock, clock + SoonHours} : Call(tasks, pd)
    /\ settings' \in SettingsPool
    /\ UNCHANGED <<inferVars, appVars, parseVars>>

\* time passes
Tick ==
    /\ clock < T0 + MaxTicks
    /\ clock' = clock + 1
    /\ UNCHANGED <<inferVars, appVars, pc, planVars, last, score, parseVars>>

\* the wall clock is set ahead while the call awaits scheduleTasks: Date is
\* not monotonic, a day or more passes between two readings
ClockSetAhead ==
    /\ pc = "scheduled"
    /\ last = NoLast
    /\ clock <= T0 + MaxTicks
    /\ clock' \in {clock + SoonHours, clock + SoonHours + 1}
    /\ UNCHANGED <<inferVars, appVars, pc, planVars, last, score, parseVars>>

InitPlan ==
    /\ clock = T0
    /\ pc = "idle"
    /\ tasks = <<>>
    /\ planDate = T0
    /\ settings = defaultSettings
    /\ scoredAt = T0
    /\ planned = <<>>
    /\ plan = NoPlan
    /\ last = NoLast
    /\ score = NoScore
    /\ apiKey = ""
    /\ freeformText = <<>>
    /\ reply = NoReply
    /\ result = NoResult
    /\ InferIdle
    /\ AppIdle

NextPlan == FirstCall \/ Resume \/ CallAgain \/ Tick \/ ClockSetAhead

SpecPlan == InitPlan /\ [][NextPlan]_vars

----------------------------------------------------------------------------
(* The scorer alone: calculatePriorityScore on one task *)

ScoreDeadlines ==
    {NoDeadline, InvalidDate, T0 - 1, T0 + UrgentHours, T0 + SoonHours,
     T0 + NearHours, T0 + NearHours + MaxTicks}

ScoreTasks ==
    { Task(1, p, 60, d, inf) :
        p \in 0..5, d \in ScoreDeadlines,
        inf \in [FieldSet -> {"absent"} \cup Confidences] }

\* a confidence one notch or two lower
Lower(confidence) ==
    IF confidence = "high" THEN {"medium", "low"}
    ELSE IF confidence = "medium" THEN {"low"}
    ELSE {}

ScoreTask ==
    /\ pc = "unscored"
    /\ score' = calculatePriorityScore(tasks[1], clock)
    /\ scoredAt' = clock
    /\ pc' = "scored"
    /\ UNCHANGED <<inferVars, appVars, clock, tasks, planDate, settings,
                   planned, plan, last, parseVars>>

\* the same task with one inference entry less confident, scored at the
\* same instant
LowerConfidence ==
    /\ pc = "scored"
    /\ \E f \in FieldSet :
         \E c \in Lower(tasks[1].inferences[f]) :
            LET lowered == [tasks[1] EXCEPT !.inferences[f] = c]
            IN  /\ tasks' = <<lowered>>
                /\ score' = calculatePriorityScore(lowered, scoredAt)
                /\ last' = [calls |-> 1, tasks |-> tasks, field |-> f,
                            score |-> score]
    /\ UNCHANGED <<inferVars, appVars, clock, pc, planDate, settings,
                   scoredAt, planned, plan, parseVars>>

TickUnscored ==
    /\ pc = "unscored"
    /\ Tick

InitScore ==
    /\ clock = T0
    /\ pc = "unscored"
    /\ tasks \in {<<t>> : t \in ScoreTasks}
    /\ planDate = T0
    /\ settings = defaultSettings
    /\ scoredAt = T0
    /\ planned = <<>>
    /\ plan = NoPlan
    /\ last = NoLast
    /\ score = NoScore
    /\ apiKey = ""
    /\ freeformText = <<>>
    /\ reply = NoReply
    /\ result = NoResult
    /\ InferIdle
    /\ AppIdle

NextScore == ScoreTask \/ LowerConfidence \/ TickUnscored

SpecScore == InitScore /\ [][NextScore]_vars

----------------------------------------------------------------------------
(* GeminiService: the external-delegated strategy *)

Min(a, b) == IF a <= b THEN a ELSE b

\* Math.max(lo, Math.min(hi, raw || fallback)): a missing or zero value is
\* falsy; a string that is no number makes Math.min, and so the whole, NaN
Clamp(lo, hi, raw, fallback) ==
    IF raw = NaN THEN NaN
    ELSE Max(lo, Min(hi, IF raw = 0 THEN fallback ELSE raw))

MinDuration == 15
MaxDuration == 240
DefaultDuration == 60
MinPriority == 1
MaxPriority == 5
DefaultPriority == 3

\* lines 200-220: an inference entry the reply lacks is undefined, held
\* under its key; an unknown confidence becomes the default
TransformEntry(rawConfidence, fallback) ==
    IF rawConfidence = "missing" THEN "undefined"
    ELSE IF rawConfidence \in Confidences THEN rawConfidence
    ELSE fallback

\* lines 189-223, one task of the reply
TransformTask(raw, index) ==
    InferredTask(index,
        <<"task">>,
        Clamp(MinPriority, MaxPriority, raw.priority, DefaultPriority),
        Clamp(MinDuration, MaxDuration, raw.duration, DefaultDuration),
        raw.deadline,
        [NoInferences EXCEPT
            !["priority"] = TransformEntry(raw.inferences.priority, "medium"),
            !["duration"] = TransformEntry(raw.inferences.duration, "medium"),
            !["deadline"] = TransformEntry(raw.inferences.deadline, "low")],
        <<>>)

\* the parsed JSON is null, or its extractedTasks is no array: a TypeError
ValidateThrows(body) ==
    body.kind = "null" \/ body.tasksKind = "not_array"

\* lines 188-233
validateAndTransformGeminiResponse(body) ==
    [extractedTasks |->
        IF body.tasksKind = "missing" THEN <<>>
        ELSE [i \in 1..Len(body.extractedTasks) |->
                 TransformTask(body.extractedTasks[i], i)],
     ambiguousLines |-> body.ambiguousLines,
     parsingErrors |-> body.parsingErrors,
     confidence |-> IF body.confidence \in Confidences THEN body.confidence
                    ELSE "medium"]

\* a slip: a response that is not ok is read like any other
RealGeminiThrowsIgnoringStatus(r) ==
    \/ r.kind \in {"network_error", "no_text", "not_json"}
    \/ r.kind = "json" /\ ValidateThrows(r.body)

\* lines 144-183: fetch rejects, the status is not ok, the reply holds no
\* text, the text is no JSON, or the transformation throws
RealGeminiThrows(r) ==
    \/ r.kind \in {"network_error", "http_error", "no_text", "not_json"}
    \/ r.kind = "json" /\ ValidateThrows(r.body)

(* What the service can answer. *)
RawConfidences(p, d, dl) == [priority |-> p, duration |-> d, deadline |-> dl]

RawTask(priority, duration, deadline, inferences) ==
    [priority |-> priority, duration |-> duration, deadline |-> deadline,
     inferences |-> inferences]

Body(kind, tasksKind, extractedTasks, confidence) ==
    [kind |-> kind, tasksKind |-> tasksKind,
     extractedTasks |-> extractedTasks, ambiguousLines |-> <<>>,
     parsingErrors |-> <<>>, confidence |-> confidence]

SampleRawTasks ==
    <<RawTask(4, 45, T0 + 30, RawConfidences("high", "medium", "low")),
      RawTask(9, 0, NoDeadline, RawConfidences("missing", "missing", "missing")),
      RawTask(NaN, -5, InvalidDate, RawConfidences("sure", "low", "likely")),
      RawTask(2, 600, NoDeadline, RawConfidences("medium", "high", "missing"))>>

SampleBodies ==
    { Body("object", "array", <<>>, "high"),
      Body("object", "array", <<SampleRawTasks[1]>>, "high"),
      Body("object", "array", <<SampleRawTasks[2]>>, "low"),
      Body("object", "array", <<SampleRawTasks[1], SampleRawTasks[3]>>, ""),
      Body("object", "array", <<SampleRawTasks[4]>>, "medium"),
      Body("object", "missing", <<>>, ""),
      Body("object", "not_array", <<>>, "high"),
      Body("null", "missing", <<>>, "") }

Replies ==
    {[kind |-> k, body |-> Body("null", "missing", <<>>, "")] :
        k \in {"network_error", "http_error", "no_text", "not_json"}}
    \cup {[kind |-> "json", body |-> b] : b \in SampleBodies}

(* The texts users submit: up to MaxLines of these lines. *)
MaxLines == 2

SampleLines ==
    { <<"urgent", "report", "today">>,
      <<"write", "summary", "by", "today">>,
      <<"urgent", "finish", "report", "by", "today">>,
      <<"research", "topic", "2", "hours">>,
      <<"low", "call", "tomorrow">>,
      <<"important", "review", "30", "min">>,
      <<"urgent">>,
      <<"report">>,
      <<>>,
      <<"prepare-the-quarterly-financial-summary-for-the-board-meeting">> }

Texts == SeqsUpTo(SampleLines, MaxLines)

\* lines 29-31
setApiKey ==
    /\ pc = "idle"
    /\ apiKey = ""
    /\ apiKey' = "key"
    /\ UNCHANGED <<inferVars, appVars, clock, pc, planVars, last, score,
                   freeformText, reply, result>>

\* lines 36-44 and 89-157: with a key the request goes out and the call
\* waits for fetch; without one the local strategy starts its timer
parseFreeformTasks ==
    /\ pc = "idle"
    /\ \E t \in Texts : freeformText' = t
    /\ pc' = IF apiKey # "" THEN "fetching" ELSE "mock_delay"
    /\ UNCHANGED <<inferVars, appVars, clock, planVars, last, score, apiKey,
                   reply, result>>

\* fetch settles (lines 159-183); what realGeminiParsing throws is caught
\* at lines 45-48, where the local strategy starts its timer
FetchSettles ==
    /\ pc = "fetching"
    /\ \E r \in Replies :
          /\ reply' = r
          /\ IF RealGeminiThrows(r)
             THEN /\ pc' = "mock_delay"
                  /\ UNCHANGED result
             ELSE /\ pc' = "parsed"
                  /\ result' = validateAndTransformGeminiResponse(r.body)
    /\ UNCHANGED <<inferVars, appVars, clock, planVars, last, score, apiKey,
                   freeformText>>

\* the timer of line 240 fires and the local strategy parses: lines 242-264
MockTimerFires ==
    /\ pc = "mock_delay"
    /\ result' = mockGeminiParsing(freeformText, clock)
    /\ pc' = "parsed"
    /\ UNCHANGED <<inferVars, appVars, clock, planVars, last, score, apiKey,
                   freeformText, reply>>

\* the caller plans what was parsed (TaskMasterPro.tsx line 62)
PlanParsed ==
    /\ pc = "parsed"
    /\ Call(result.extractedTasks, clock)
    /\ UNCHANGED <<inferVars, appVars, settings, last, parseVars>>

InitParse ==
    /\ clock = T0
    /\ pc = "idle"
    /\ tasks = <<>>
    /\ planDate = T0
    /\ settings = defaultSettings
    /\ scoredAt = T0
    /\ planned = <<>>
    /\ plan = NoPlan
    /\ last = NoLast
    /\ score = NoScore
    /\ apiKey = ""
    /\ freeformText = <<>>
    /\ reply = NoReply
    /\ result = NoResult
    /\ InferIdle
    /\ AppIdle

\* the steps a call takes by itself, without an answer of the service
CallProceeds == MockTimerFires \/ PlanParsed \/ Resume

NextParse ==
    \/ setApiKey
    \/ parseFreeformTasks
    \/ FetchSettles
    \/ MockTimerFires
    \/ PlanParsed
    \/ Resume
    \/ Tick

Spec == InitParse /\ [][NextParse]_vars

----------------------------------------------------------------------------
(* GeminiService.inferTaskFields: the inference of the fields a structured *)
(* task lacks.  A priority or duration of 0 is a field that is absent.     *)

StructuredTask(id, title, deadline, priority, duration) ==
    [id |-> id, title |-> title, deadline |-> deadline,
     priority |-> priority, duration |-> duration]

\* a key the inferences object does not hold
NoEntry == [confidence |-> "absent"]

Entry(value, confidence, rationale) ==
    [value |-> value, confidence |-> confidence, rationale |-> rationale]

\* line 435 and line 439
BigTaskWords == {"research", "analyze", "develop", "design", "create", "build"}
QuickTaskWords == {"check", "review", "send", "call", "email"}

\* a slip: the hours until the deadline counted from the instant the
\* service read last
InferPriorityStaleClock(task, now) ==
    IF task.priority # 0 THEN NoEntry
    ELSE IF task.deadline >= 0 /\ task.deadline - inferredAt < 24
         THEN Entry(5, "high", "High priority due to approaching deadline")
    ELSE IF task.deadline >= 0 /\ task.deadline - inferredAt < 72
         THEN Entry(4, "medium",
                    "Medium-high priority due to deadline in 3 days")
    ELSE Entry(3, "medium", "Default medium priority")

\* a slip: each boundary counted to the nearer band
InferPriorityInclusive(task, now) ==
    IF task.priority # 0 THEN NoEntry
    ELSE IF task.deadline >= 0 /\ task.deadline - now <= 24
         THEN Entry(5, "high", "High priority due to approaching deadline")
    ELSE IF task.deadline >= 0 /\ task.deadline - now <= 72
         THEN Entry(4, "medium",
                    "Medium-high priority due to deadline in 3 days")
    ELSE Entry(3, "medium", "Default medium priority")

\* lines 396-423: an Invalid Date is truthy and compares false
InferPriority(task, now) ==
    IF task.priority # 0 THEN NoEntry
    ELSE IF task.deadline >= 0 /\ task.deadline - now < 24
         THEN Entry(5, "high", "High priority due to approaching deadline")
    ELSE IF task.deadline >= 0 /\ task.deadline - now < 72
         THEN Entry(4, "medium",
                    "Medium-high priority due to deadline in 3 days")
    ELSE Entry(3, "medium", "Default medium priority")

\* lines 426-450
InferDuration(task) ==
    IF task.duration # 0 THEN NoEntry
    ELSE IF LineLength(task.title) > 50 \/ HasWord(task.title, BigTaskWords)
         THEN Entry(120, "medium", "Estimated 2 hours based on task complexity")
    ELSE IF LineLength(task.title) < 20 /\ HasWord(task.title, QuickTaskWords)
         THEN Entry(30, "medium", "Estimated 30 minutes for quick task")
    ELSE Entry(60, "low", "Default 1-hour estimate")

\* lines 422 and 449
InferenceHints(task) ==
    (IF task.priority = 0 THEN <<"if actually low priority">> ELSE <<>>)
    \o (IF task.duration = 0 THEN <<"duration can be adjusted">> ELSE <<>>)

\* a slip: the inferred values are written into the fields of the task
mockFieldInferenceFillingIn(task, now) ==
    LET p == InferPriority(task, now)
        d == InferDuration(task)
    IN  [id |-> task.id, title |-> task.title, deadline |-> task.deadline,
         priority |-> IF p = NoEntry THEN task.priority ELSE p.value,
         duration |-> IF d = NoEntry THEN task.duration ELSE d.value,
         inferences |-> [priority |-> p, duration |-> d],
         conditionalHints |-> InferenceHints(task)]

\* lines 389-454, once its timer has fired at `now`: { ...task, inferences,
\* conditionalHints }
mockFieldInference(task, now) ==
    [id |-> task.id, title |-> task.title, deadline |-> task.deadline,
     priority |-> task.priority, duration |-> task.duration,
     inferences |-> [priority |-> InferPriority(task, now),
                     duration |-> InferDuration(task)],
     conditionalHints |-> InferenceHints(task)]

(* The structured tasks handed to inferTaskFields: fields as the types and *)
(* the form validation allow them (title not empty, priority absent or in  *)
(* 1..5, duration absent or positive).  For these mockFieldInference never *)
(* throws, so the catch of inferTaskFields (lines 59-66) is not entered.   *)
InferTitles ==
    { <<"plan", "trip">>,
      <<"research", "topic">>,
      <<"call", "bob">>,
      <<"review", "the", "quarterly", "figures">>,
      <<"prepare-the-quarterly-financial-summary-for-the-board-meeting">> }

InferDeadlines ==
    {NoDeadline, InvalidDate, T0 - 1, T0 + 23, T0 + 24, T0 + 25, T0 + 72,
     T0 + 73}

StructuredPool ==
    {StructuredTask(1, t, dl, p, d) :
        t \in InferTitles, dl \in InferDeadlines, p \in {0, 2, 5},
        d \in {0, 45}}

\* lines 55-57 and 390: the call, up to the await of its timer
inferTaskFields ==
    /\ pc = "idle"
    /\ last = NoLast
    /\ \E task \in StructuredPool : structuredTask' = task
    /\ inferred' = NoTask
    /\ pc' = "infer_delay"
    /\ UNCHANGED <<clock, planVars, last, score, parseVars, inferredAt,
                   appVars>>

\* lines 392-453: the timer has fired
InferTimerFires ==
    /\ pc = "infer_delay"
    /\ inferred' = mockFieldInference(structuredTask, clock)
    /\ inferredAt' = clock
    /\ pc' = "inferred"
    /\ UNCHANGED <<clock, planVars, last, score, parseVars, structuredTask,
                   appVars>>

\* the caller keeps the outcome and calls again with the same task
InferAgain ==
    /\ pc = "inferred"
    /\ last = NoLast
    /\ last' = [calls |-> 1, task |-> structuredTask, inferred |-> inferred,
                inferredAt |-> inferredAt]
    /\ inferred' = NoTask
    /\ pc' = "infer_delay"
    /\ UNCHANGED <<clock, planVars, score, parseVars, structuredTask,
                   inferredAt, appVars>>

InitInfer == InitPlan

NextInfer == inferTaskFields \/ InferTimerFires \/ InferAgain \/ Tick

SpecInfer == InitInfer /\ [][NextInfer]_vars

----------------------------------------------------------------------------
(* TaskMasterPro with its hooks: the key dialog and the freeform form *)

\* what the user saves in the key dialog
KeyInputs == {"", "key"}

\* what the user types in the freeform field
AppTexts ==
    {<<>>, <<(<<>>)>>, <<(<<"urgent", "report", "today">>)>>,
     <<(<<"report">>)>>}

\* useApiKeyManager lines 30-34
saveApiKey ==
    /\ \E newApiKey \in KeyInputs :
          /\ newApiKey # geminiApiKey
          /\ geminiApiKey' = newApiKey
    /\ UNCHANGED <<clock, pc, planVars, last, score, parseVars, inferVars,
                   freeformInput, structuredTasks, isProcessing, error,
                   currentPlan>>

\* TaskMasterPro.tsx line 260
setFreeformInput ==
    /\ \E value \in AppTexts :
          /\ value # freeformInput
          /\ freeformInput' = value
    /\ UNCHANGED <<clock, pc, planVars, last, score, parseVars, inferVars,
                   geminiApiKey, structuredTasks, isProcessing, error,
                   currentPlan>>

\* TaskMasterPro.tsx lines 49-61, up to the first await inside
\* parseFreeformTasks: the key of the hook is handed to the service only
\* when it is not empty
handleFreeformSubmit ==
    /\ NonBlankLines(freeformInput) # <<>>
    /\ ~isProcessing
    /\ isProcessing' = TRUE
    /\ error' = ""
    /\ apiKey' = IF geminiApiKey # "" THEN geminiApiKey ELSE apiKey
    /\ freeformText' = freeformInput
    /\ reply' = NoReply
    /\ result' = NoResult
    /\ pc' = IF apiKey' # "" THEN "fetching" ELSE "mock_delay"
    /\ UNCHANGED <<clock, planVars, last, score, inferVars, geminiApiKey,
                   freeformInput, structuredTasks, currentPlan>>

\* TaskMasterPro.tsx lines 64-69 and 91-96: the plan is stored, or the catch
\* records the error; the locals of the run are gone
SubmitSettles ==
    /\ isProcessing
    /\ pc \in {"returned", "threw"}
    /\ IF pc = "returned"
       THEN currentPlan' = plan /\ UNCHANGED error
       ELSE error' = "TypeError" /\ UNCHANGED currentPlan
    /\ isProcessing' = FALSE
    /\ pc' = "idle"
    /\ tasks' = <<>>
    /\ planDate' = T0
    /\ scoredAt' = T0
    /\ planned' = <<>>
    /\ plan' = NoPlan
    /\ reply' = NoReply
    /\ result' = NoResult
    /\ UNCHANGED <<clock, settings, last, score, apiKey, freeformText,
                   inferVars, geminiApiKey, freeformInput, structuredTasks>>

InitApp == InitParse

NextApp ==
    \/ saveApiKey
    \/ setFreeformInput
    \/ handleFreeformSubmit
    \/ FetchSettles
    \/ MockTimerFires
    \/ PlanParsed
    \/ Resume
    \/ SubmitSettles
    \/ Tick

SpecApp == InitApp /\ [][NextApp]_vars

----------------------------------------------------------------------------
(* useTaskPlanning: the list of the structured form *)

\* most tasks the form holds
MaxStructured == 2

\* useTaskPlanning lines 45-52: the id is Date.now().toString()
NewStructuredTask(now) ==
    [id |-> now, name |-> <<>>, duration |-> 30, priority |-> 5,
     deadline |-> NoDeadline, isCompleted |-> FALSE]

\* TaskMasterPro.tsx lines 292, 303 and 313: the updates the form sends are
\* a name, a duration (parseInt(value) || 60) or a priority
FormUpdates ==
    {[field |-> "name", value |-> <<"task">>],
     [field |-> "duration", value |-> 60],
     [field |-> "priority", value |-> 1]}

\* { ...task, ...updates }
ApplyUpdate(task, updates) == [task EXCEPT ![updates.field] = updates.value]

\* useTaskPlanning lines 44-54
addStructuredTask ==
    /\ Len(structuredTasks) < MaxStructured
    /\ structuredTasks' = Append(structuredTasks, NewStructuredTask(clock))
    /\ UNCHANGED <<clock, pc, planVars, last, score, parseVars, inferVars,
                   geminiApiKey, freeformInput, isProcessing, error,
                   currentPlan>>

\* useTaskPlanning lines 56-62, for a task on display
updateStructuredTask ==
    /\ \E i \in 1..Len(structuredTasks), updates \in FormUpdates :
          LET id == structuredTasks[i].id
          IN  structuredTasks' =
                 [j \in 1..Len(structuredTasks) |->
                     IF structuredTasks[j].id = id
                     THEN ApplyUpdate(structuredTasks[j], updates)
                     ELSE structuredTasks[j]]
    /\ structuredTasks' # structuredTasks
    /\ UNCHANGED <<clock, pc, planVars, last, score, parseVars, inferVars,
                   geminiApiKey, freeformInput, isProcessing, error,
                   currentPlan>>

\* useTaskPlanning lines 64-66, for a task on display
removeStructuredTask ==
    /\ \E i \in 1..Len(structuredTasks) :
          LET id == structuredTasks[i].id
          IN  structuredTasks' =
                 SelectSeq(structuredTasks, LAMBDA task : task.id # id)
    /\ UNCHANGED <<clock, pc, planVars, last, score, parseVars, inferVars,
                   geminiApiKey, freeformInput, isProcessing, error,
                   currentPlan>>

InitForm == InitParse

NextForm ==
    \/ addStructuredTask
    \/ updateStructuredTask
    \/ removeStructuredTask
    \/ Tick

SpecForm == InitForm /\ [][NextForm]_vars

----------------------------------------------------------------------------
(* TaskMasterPro: the two submit buttons *)

\* a slip: every field of a form task marked as a low-confidence inference
inferredTasksAllLow(list) ==
    [i \in 1..Len(list) |->
        InferredTask(list[i].id, list[i].name, list[i].priority,
                     list[i].duration, list[i].deadline,
                     [k \in DOMAIN NoInferences |-> "low"], <<>>)]

\* TaskMasterPro.tsx lines 78-86: inferences is {} and conditionalHints []
inferredTasks(list) ==
    [i \in 1..Len(list) |->
        InferredTask(list[i].id, list[i].name, list[i].priority,
                     list[i].duration, list[i].deadline, NoInferences, <<>>)]

\* a slip: the structured submit without the isProcessing test
handleStructuredSubmitWhileBusy ==
    /\ Len(structuredTasks) # 0
    /\ isProcessing' = TRUE
    /\ error' = ""
    /\ Call(inferredTasks(structuredTasks), clock)
    /\ UNCHANGED <<settings, last, parseVars, inferVars, geminiApiKey,
                   freeformInput, structuredTasks, currentPlan>>

\* TaskMasterPro.tsx lines 72-88, up to the await inside generateDailyPlan,
\* which is called without a planDate
handleStructuredSubmit ==
    /\ Len(structuredTasks) # 0
    /\ ~isProcessing
    /\ isProcessing' = TRUE
    /\ error' = ""
    /\ Call(inferredTasks(structuredTasks), clock)
    /\ UNCHANGED <<settings, last, parseVars, inferVars, geminiApiKey,
                   freeformInput, structuredTasks, currentPlan>>

\* the lists the form holds when the buttons are used: empty, one task as
\* addStructuredTask makes it, one task with its priority set to 1
FormLists ==
    {<<>>,
     <<NewStructuredTask(T0)>>,
     <<ApplyUpdate(NewStructuredTask(T0),
                   [field |-> "priority", value |-> 1])>>}

InitSubmit ==
    /\ clock = T0
    /\ pc = "idle"
    /\ tasks = <<>>
    /\ planDate = T0
    /\ settings = defaultSettings
    /\ scoredAt = T0
    /\ planned = <<>>
    /\ plan = NoPlan
    /\ last = NoLast
    /\ score = NoScore
    /\ apiKey = ""
    /\ freeformText = <<>>
    /\ reply = NoReply
    /\ result = NoResult
    /\ InferIdle
    /\ geminiApiKey = ""
    /\ freeformInput = <<>>
    /\ structuredTasks \in FormLists
    /\ isProcessing = FALSE
    /\ error = ""
    /\ currentPlan = NoPlan

NextSubmit ==
    \/ saveApiKey
    \/ setFreeformInput
    \/ handleFreeformSubmit
    \/ handleStructuredSubmit
    \/ FetchSettles
    \/ MockTimerFires
    \/ PlanParsed
    \/ Resume
    \/ SubmitSettles
    \/ Tick

SpecSubmit == InitSubmit /\ [][NextSubmit]_vars

----------------------------------------------------------------------------
(* Properties of generateDailyPlan (SpecPlan) *)

RECURSIVE Count(_, _)
Count(seq, x) ==
    IF seq = <<>> THEN 0
    ELSE (IF Head(seq) = x THEN 1 ELSE 0) + Count(Tail(seq), x)

RECURSIVE TasksOf(_)
TasksOf(plannedTasks) ==
    IF plannedTasks = <<>> THEN <<>>
    ELSE <<Head(plannedTasks).task>> \o TasksOf(Tail(plannedTasks))

Range(seq) == {seq[i] : i \in 1..Len(seq)}

SectionNames == {"now", "next", "later"}

AllPlanned(p) == p.sections.now \o p.sections.next \o p.sections.later

\* C1: in a returned plan every task of the input list is in exactly one of
\* now, next and later, as often as it is in the input: none is lost, none
\* is doubled, none is in two sections.
C1_Coverage ==
    pc = "returned" =>
        /\ \A t \in Range(tasks) \cup Range(TasksOf(AllPlanned(plan))) :
              Count(TasksOf(AllPlanned(plan)), t) = Count(tasks, t)
        /\ \A a, b \in SectionNames :
              a # b => Range(TasksOf(plan.sections[a]))
                         \cap Range(TasksOf(plan.sections[b])) = {}

C1_Witness ==
    /\ pc = "returned"
    /\ Len(tasks) = 2
    /\ Len(plan.sections.now) = 1
    /\ Len(plan.sections.later) = 1

\* C5: a planned task is in now exactly when its urgency > 0.8 or its total
\* > 0.8, otherwise in next exactly when its total > 0.5, otherwise in later.
C5_Thresholds ==
    pc = "returned" =>
        \A p \in Range(AllPlanned(plan)) :
            LET u == p.priorityScore.urgency
                t == p.priorityScore.total
            IN  /\ p \in Range(plan.sections.now) <=> (u > 800 \/ t > 800)
                /\ p \in Range(plan.sections.next) <=>
                      (~(u > 800 \/ t > 800) /\ t > 500)
                /\ p \in Range(plan.sections.later) <=>
                      (~(u > 800 \/ t > 800) /\ ~(t > 500))

\* a total of exactly 0.8 (urgency 0.5) in next and one of exactly 0.5 in later
C5_Witness ==
    /\ pc = "returned"
    /\ \E p \in Range(plan.sections.next) :
          p.priorityScore.total = 800 /\ p.priorityScore.urgency <= 800
    /\ \E p \in Range(plan.sections.later) : p.priorityScore.total = 500

\* C6: a planned task is in overdueTasks exactly when it has a deadline
\* strictly before the instant the plan was assembled, whatever its section.
C6_Overdue ==
    pc = "returned" =>
        \A p \in Range(AllPlanned(plan)) :
            p \in Range(plan.overdueTasks) <=>
                /\ p.task.deadline >= 0
                /\ p.task.deadline < plan.metadata.planningDate

\* one task overdue, one whose deadline is the current instant and is not
C6_Witness ==
    /\ pc = "returned"
    /\ Len(plan.overdueTasks) = 1
    /\ \E p \in Range(AllPlanned(plan)) :
          p.task.deadline = plan.metadata.planningDate

C25_Reason ==
    pc = "returned" =>
        \A p \in Range(AllPlanned(plan)) :
            LET s == p.priorityScore
                urgent == IF s.urgency > 800 THEN "urgent deadline"
                          ELSE IF s.urgency > 600 THEN "approaching deadline"
                          ELSE ""
                important == IF s.importance > 800 THEN "high priority"
                             ELSE IF s.importance < 400 THEN "lower priority"
                             ELSE ""
                uncertain == IF s.uncertaintyPenalty > 100
                             THEN "adjusted for inference uncertainty"
                             ELSE ""
                q == SelectSeq(<<urgent, important, uncertain>>,
                               LAMBDA phrase : phrase # "")
                listed == IF Len(q) = 1 THEN q[1]
                          ELSE IF Len(q) = 2 THEN q[1] \o ", " \o q[2]
                          ELSE q[1] \o ", " \o q[2] \o ", " \o q[3]
            IN  /\ q # <<>> =>
                      p.schedulingReason = "Scheduled due to " \o listed \o "."
                /\ q = <<>> <=>
                      p.schedulingReason = "Scheduled based on availability."

\* a reason of three phrases and one without a phrase, in one plan
C25_Witness ==
    /\ pc = "returned"
    /\ \E p \in Range(AllPlanned(plan)) :
          p.schedulingReason = "Scheduled due to urgent deadline, high priority, adjusted for inference uncertainty."
    /\ \E p \in Range(AllPlanned(plan)) :
          p.schedulingReason = "Scheduled based on availability."

\* C28: no task of sections.now (priority absent or 1..5) carries the
\* sentence without a phrase: whatever puts a task in now also triggers a
\* phrase of its schedulingReason.
C28_NowHasPhrase ==
    pc = "returned"
    => \A p \in Range(plan.sections.now) :
          p.task.priority \in 0..5
          => /\ p.schedulingReason # "Scheduled based on availability."
             /\ Len(Reasons(p.priorityScore)) >= 1

\* tasks placed in now by their total alone: one with an approaching
\* deadline and nothing else, one with a high priority and no deadline
C28_Witness ==
    /\ pc = "returned"
    /\ \E p \in Range(plan.sections.now) :
          /\ p.priorityScore.urgency = 700
          /\ p.schedulingReason = "Scheduled due to approaching deadline."
    /\ \E p \in Range(plan.sections.now) :
          /\ p.priorityScore.urgency = 500
          /\ p.schedulingReason = "Scheduled due to high priority."

C27_OverdueInNow ==
    pc = "returned" =>
        \A p \in Range(plan.overdueTasks) : p \in Range(plan.sections.now)

\* C27, amended: every task in overdueTasks is in sections.now when the
\* overdue detection reads the clock at most 24 hours after the scoring.
C27_OverdueInNowWithinADay ==
    (/\ pc = "returned"
     /\ plan.metadata.planningDate - scoredAt <= 24)
    => \A p \in Range(plan.overdueTasks) : p \in Range(plan.sections.now)

\* the clock set ahead by exactly 24 hours after the scoring: a task whose
\* deadline passed in between is overdue and in now, one whose deadline is
\* the new instant is in next and not overdue
C27_Witness ==
    /\ pc = "returned"
    /\ plan.metadata.planningDate - scoredAt = 24
    /\ \E p \in Range(plan.overdueTasks) :
          /\ p.task.deadline > scoredAt
          /\ p \in Range(plan.sections.now)
    /\ \E p \in Range(plan.sections.next) :
          p.task.deadline = plan.metadata.planningDate

----------------------------------------------------------------------------
(* Properties of calculatePriorityScore (SpecScore) *)

\* C8: lowering the confidence of one inference entry, all else equal, never
\* raises the total.
C8_Monotone ==
    (pc = "scored" /\ last.calls = 1) => score.total <= last.score.total

\* an entry was lowered and the total fell
C8_Witness ==
    /\ pc = "scored"
    /\ last.calls = 1
    /\ tasks[1].inferences[last.field] = "low"
    /\ last.tasks[1].inferences[last.field] = "high"
    /\ score.total = last.score.total - 100

\* C9: with priority absent or 1..5 and at most the four inference entries,
\* total = 0.30 urgency + 0.25 importance + 0.15 effortFit
\* + 0.15 dependencyReady + 0.15 slackRisk - uncertaintyPenalty, the last
\* three factors being 1.0: the floor at 0 never applies.
C9_Formula ==
    pc = "scored" =>
        /\ score.effortFit = 1000
        /\ score.dependencyReady = 1000
        /\ score.slackRisk = 1000
        /\ 100 * score.total =
              30 * score.urgency + 25 * score.importance
              + 15 * score.effortFit + 15 * score.dependencyReady
              + 15 * score.slackRisk - 100 * score.uncertaintyPenalty

\* the smallest total: urgency 0.3, priority 1, four low entries
C9_Witness ==
    /\ pc = "scored"
    /\ score.urgency = 300
    /\ score.importance = 200
    /\ score.uncertaintyPenalty = 400
    /\ score.total = 190

\* C10: with priority absent or 1..5, the five factors and the total are in
\* [0, 1] and the penalty is not negative.
C10_Ranges ==
    pc = "scored" =>
        /\ score.urgency \in 0..1000
        /\ score.importance \in 0..1000
        /\ score.effortFit \in 0..1000
        /\ score.dependencyReady \in 0..1000
        /\ score.slackRisk \in 0..1000
        /\ score.uncertaintyPenalty >= 0
        /\ score.total \in 0..1000

\* the largest total: urgency 1.0, priority 5, nothing inferred
C10_Witness ==
    /\ pc = "scored"
    /\ score.urgency = 1000
    /\ score.importance = 1000
    /\ score.total = 1000

\* C21: the urgency is 1.0 for a deadline less than 4 hours after the
\* instant of scoring (a passed one included), 0.9 for less than 24 hours,
\* 0.7 for less than 72 hours, 0.3 from 72 hours on, and 0.5 without
\* deadline; exactly 4, 24 and 72 hours are in the less urgent band.
C21_UrgencyBands ==
    pc = "scored" =>
        LET deadline == tasks[1].deadline
            hours == deadline - scoredAt
        IN  /\ deadline = NoDeadline => score.urgency = 500
            /\ deadline >= 0 =>
                  score.urgency = IF hours < 4 THEN 1000
                                  ELSE IF hours < 24 THEN 900
                                  ELSE IF hours < 72 THEN 700
                                  ELSE 300

\* a deadline exactly 4 hours after the instant of scoring
C21_Witness ==
    /\ pc = "scored"
    /\ tasks[1].deadline - scoredAt = 4
    /\ score.urgency = 900

\* C22: the penalty is 0.10 for each entry of confidence low plus 0.05 for
\* each of confidence medium; an entry of confidence high and a field
\* without entry add nothing.
C22_Penalty ==
    pc = "scored" =>
        LET with(c) == Cardinality({f \in FieldSet : tasks[1].inferences[f] = c})
        IN  score.uncertaintyPenalty = 100 * with("low") + 50 * with("medium")

\* one entry low, one medium, one high, one field without entry
C22_Witness ==
    /\ pc = "scored"
    /\ \E a, b, c, d \in FieldSet :
          /\ tasks[1].inferences[a] = "low"
          /\ tasks[1].inferences[b] = "medium"
          /\ tasks[1].inferences[c] = "high"
          /\ tasks[1].inferences[d] = "absent"
    /\ score.uncertaintyPenalty = 150

----------------------------------------------------------------------------
(* Properties of parseFreeformTasks followed by generateDailyPlan (Spec) *)

\* C2: generateDailyPlan never throws on a task list that parseFreeformTasks
\* returned, also when the service sent no inference entry for a field.
C2_NeverThrows == pc # "threw"

FailureKinds == {"network_error", "http_error", "no_text", "not_json"}

\* C3: with a key set, when the external parse failed (no connection, a
\* status that is not ok, a reply without text, text that is no JSON), the
\* call returns what the local strategy gives for the same text.
C3_FallsBack ==
    (/\ pc \in {"parsed", "scheduled", "returned", "threw"}
     /\ apiKey # ""
     /\ reply.kind \in FailureKinds)
    => \E now \in T0..clock : result = mockGeminiParsing(freeformText, now)

\* after a status that is not ok, the local result for a text with a task
C3_Witness ==
    /\ pc = "parsed"
    /\ apiKey # ""
    /\ reply.kind = "http_error"
    /\ Len(result.extractedTasks) = 2
    /\ result.confidence = "medium"

\* C11: within each of now, next and later the totals never increase down
\* the list, and the tasks of one total stand in the order they have in the
\* input list.
C11_SectionOrder ==
    pc = "returned" =>
        \A s \in SectionNames :
            LET sec == plan.sections[s]
                totals == {sec[i].priorityScore.total : i \in 1..Len(sec)}
            IN  /\ \A i, j \in 1..Len(sec) :
                      i < j => sec[i].priorityScore.total
                                 >= sec[j].priorityScore.total
                /\ \A v \in totals :
                      LET same == {q.task : q \in
                                    {r \in Range(sec) :
                                        r.priorityScore.total = v}}
                      IN  SelectSeq(TasksOf(sec), LAMBDA t : t \in same)
                            = SelectSeq(tasks, LAMBDA t : t \in same)

\* two different tasks of one total in one section
C11_Witness ==
    /\ pc = "returned"
    /\ \E s \in SectionNames :
          /\ Len(plan.sections[s]) = 2
          /\ plan.sections[s][1].priorityScore.total
                = plan.sections[s][2].priorityScore.total
          /\ plan.sections[s][1].task # plan.sections[s][2].task

\* C12: totalTasks is the length of the input list and the sum of the lengths
\* of the three sections; totalDuration is the sum of the durations of the
\* input tasks, a task without duration adding 0; for the empty list the
\* sections and overdueTasks are empty and both totals are 0.
C12_Metadata ==
    pc = "returned" =>
        LET sum[n \in 0..Len(tasks)] ==
                IF n = 0 THEN 0
                ELSE sum[n - 1] + (IF tasks[n].duration > 0
                                   THEN tasks[n].duration ELSE 0)
        IN  /\ plan.metadata.totalTasks = Len(tasks)
            /\ plan.metadata.totalTasks
                  = Len(plan.sections.now) + Len(plan.sections.next)
                      + Len(plan.sections.later)
            /\ plan.metadata.totalDuration = sum[Len(tasks)]
            /\ tasks = <<>> =>
                  /\ \A s \in SectionNames : plan.sections[s] = <<>>
                  /\ plan.overdueTasks = <<>>
                  /\ plan.metadata.totalTasks = 0
                  /\ plan.metadata.totalDuration = 0

\* a plan of two tasks, one without duration and one with
C12_Witness ==
    /\ pc = "returned"
    /\ Len(tasks) = 2
    /\ \E i \in 1..2 : tasks[i].duration = 0
    /\ plan.metadata.totalDuration > 0

----------------------------------------------------------------------------
(* Properties of the two parsing strategies (Spec) *)

Parsed == pc \in {"parsed", "scheduled", "returned", "threw"}

\* the result on record was built from the reply of the service
ParsedFromReply ==
    Parsed /\ apiKey # "" /\ reply.kind = "json" /\ ~RealGeminiThrows(reply)

\* the result on record was built by the local strategy
ParsedLocally == Parsed /\ ~ParsedFromReply

\* C13: whatever the service returned, each task built from its reply has a
\* priority within 1..5, a duration within 15..240, and in each inference
\* entry it has one of the confidences low, medium and high.
C13_Clamped ==
    ParsedFromReply =>
        \A t \in Range(result.extractedTasks) :
            /\ t.priority \in MinPriority..MaxPriority
            /\ t.duration \in MinDuration..MaxDuration
            /\ \A f \in {"priority", "duration", "deadline"} :
                  t.inferences[f] \in Confidences \cup {"absent", "undefined"}

\* C14: a reply that is JSON without extractedTasks is treated as malformed:
\* the call returns what the local strategy gives for the text.
C14_MissingKeyFallsBack ==
    (/\ Parsed
     /\ apiKey # ""
     /\ reply.kind = "json"
     /\ reply.body.tasksKind = "missing")
    => \E now \in T0..clock : result = mockGeminiParsing(freeformText, now)

\* C16: in a local result every line with the word today has a task whose
\* deadline is today at 17:00 with confidence high, and every line with
\* tomorrow and without today one with tomorrow at 17:00, also after by or
\* due.
C16_TodayTomorrow ==
    ParsedLocally =>
        \E now \in T0..clock :
            LET lines == NonBlankLines(freeformText)
            IN  \A i \in 1..Len(lines) :
                    LET today == "today" \in Range(lines[i])
                        tomorrow == "tomorrow" \in Range(lines[i])
                    IN  (today \/ tomorrow) =>
                          \E t \in Range(result.extractedTasks) :
                              /\ t.id = i
                              /\ t.inferences["deadline"] = "high"
                              /\ t.deadline =
                                    IF today THEN TodayAtFive(now)
                                    ELSE TodayAtFive(now) + HoursPerDay

\* C17 as stated: a line that is not blank and whose title is empty after
\* stripping is in neither extractedTasks nor ambiguousLines.
C17_Discarded ==
    ParsedLocally =>
        LET lines == NonBlankLines(freeformText)
        IN  \A i \in 1..Len(lines) :
                CleanTitle(lines[i]) = <<>> =>
                    /\ lines[i] \notin Range(result.ambiguousLines)
                    /\ \A t \in Range(result.extractedTasks) : t.id # i

\* C17, amended: such a line gives no task and is kept in ambiguousLines;
\* ambiguousLines holds these lines and no others, in the order of the text.
C17_KeptAsAmbiguous ==
    ParsedLocally =>
        LET lines == NonBlankLines(freeformText)
        IN  /\ result.ambiguousLines
                  = SelectSeq(lines, LAMBDA line : CleanTitle(line) = <<>>)
            /\ \A i \in 1..Len(lines) :
                  CleanTitle(lines[i]) = <<>> =>
                      \A t \in Range(result.extractedTasks) : t.id # i

\* a text of a line with a task and a line of one keyword
C17_Witness ==
    /\ ParsedLocally
    /\ Len(result.extractedTasks) = 1
    /\ result.ambiguousLines = <<(<<"urgent">>)>>

----------------------------------------------------------------------------
(* Properties of inferTaskFields (SpecInfer) *)

\* C18: the step that returns leaves its argument as it was, and the task it
\* returns has a priority entry exactly when the argument has no priority,
\* a duration entry exactly when it has no duration, and the id, title,
\* deadline, priority and duration of the argument.
C18_OnlyMissingInferred ==
    [][(pc = "infer_delay" /\ pc' = "inferred") =>
          /\ structuredTask' = structuredTask
          /\ (inferred'.inferences.priority # NoEntry)
                <=> (structuredTask.priority = 0)
          /\ (inferred'.inferences.duration # NoEntry)
                <=> (structuredTask.duration = 0)
          /\ inferred'.id = structuredTask.id
          /\ inferred'.title = structuredTask.title
          /\ inferred'.deadline = structuredTask.deadline
          /\ inferred'.priority = structuredTask.priority
          /\ inferred'.duration = structuredTask.duration]_vars

\* a task with a duration and without priority, after the call
C18_Witness ==
    /\ pc = "inferred"
    /\ structuredTask.priority = 0
    /\ structuredTask.duration = 45
    /\ inferred.inferences.priority.value = 5
    /\ inferred.inferences.duration = NoEntry

----------------------------------------------------------------------------
(* Properties of the application (SpecApp, SpecForm) *)

\* C15: a submission sends a request to the service only while the key the
\* user has configured is not empty.
C15_RequestNeedsKey ==
    [][(pc # "fetching" /\ pc' = "fetching") => geminiApiKey # ""]_vars

\* C20: the ids of the tasks in structuredTasks are pairwise distinct.
C20_DistinctIds ==
    \A i, j \in 1..Len(structuredTasks) :
        i # j => structuredTasks[i].id # structuredTasks[j].id

\* C23: for a task without priority the inferred priority is 5 with
\* confidence high when the deadline is less than 24 hours after the instant
\* of the inference, 4 with confidence medium when less than 72 hours, and
\* 3 with confidence medium when 72 hours or more, or without deadline.
C23_PriorityInference ==
    (pc = "inferred" /\ structuredTask.priority = 0) =>
        LET deadline == structuredTask.deadline
            hours == deadline - inferredAt
            entry == inferred.inferences.priority
            Is(value, confidence) ==
                entry.value = value /\ entry.confidence = confidence
        IN  /\ (deadline >= 0 /\ hours < 24) => Is(5, "high")
            /\ (deadline >= 0 /\ hours >= 24 /\ hours < 72) => Is(4, "medium")
            /\ (deadline >= 0 /\ hours >= 72) => Is(3, "medium")
            /\ deadline = NoDeadline => Is(3, "medium")

\* a deadline exactly 24 hours after the instant of the inference
C23_Witness ==
    /\ pc = "inferred"
    /\ structuredTask.priority = 0
    /\ structuredTask.deadline - inferredAt = 24
    /\ inferred.inferences.priority.value = 4
    /\ inferred.inferences.priority.confidence = "medium"

\* C24: in a local result a task of a line with an explicit duration has
\* that many minutes (hours times 60) with confidence high, and a task of a
\* line without one has the duration the title heuristic of
\* inferTaskFields gives for the same text.
C24_DurationAsInferred ==
    ParsedLocally =>
        LET lines == NonBlankLines(freeformText)
        IN  \A t \in Range(result.extractedTasks) :
                LET line == lines[t.id]
                    n == DurationMatch(line)
                IN  IF n # 0
                    THEN /\ t.inferences["duration"] = "high"
                         /\ t.duration =
                               IF line[NextWord(line, n + 1)] \in HourUnits
                               THEN 60 * NumberValue[line[n]]
                               ELSE NumberValue[line[n]]
                    ELSE t.duration =
                           InferDuration(StructuredTask(t.id, line,
                                             NoDeadline, 0, 0)).value

\* C4: a call never depends on the service answering: while the request is
\* out, a step of the call itself (a timeout) can end the wait.
C4_BoundedWait == pc = "fetching" => ENABLED CallProceeds

\* the plan on record was built from the structured form: no parse preceded
FromForm == pc \in {"scheduled", "returned"} /\ result = NoResult

\* C29: a plan built from tasks of the local strategy or of the structured
\* form has an empty later section: each of its tasks has a total above 0.5.
C29_LaterEmpty ==
    (pc = "returned" /\ (FromForm \/ ParsedLocally))
    => /\ plan.sections.later = <<>>
       /\ \A p \in Range(AllPlanned(plan)) : p.priorityScore.total > 500

\* a form run with the lowest total of the form (priority 1: 0.65), after a
\* freeform run with the lowest total of the local strategy (priority 3 and
\* duration both of low confidence, no deadline: 0.55); both tasks in next
C29_Witness ==
    /\ pc = "returned"
    /\ FromForm
    /\ \E p \in Range(plan.sections.next) : p.priorityScore.total = 650
    /\ currentPlan # NoPlan
    /\ \E p \in Range(currentPlan.sections.next) :
          /\ p.priorityScore.total = 550
          /\ p.task.inferences["priority"] = "low"

\* a step that starts a parse: it leaves a request or the timer of the
\* local strategy pending where none was
ParseStarts ==
    pc' \in {"fetching", "mock_delay"} /\ pc \notin {"fetching", "mock_delay"}

\* a step that starts a plan generation of the form: generateDailyPlan is
\* called where no parse has just ended
PlanStarts ==
    pc' \in {"scheduled", "threw"} /\ pc \notin {"parsed", "scheduled", "threw"}

\* a step that ends a run
RunEnds == isProcessing /\ ~isProcessing'

\* C30: at most one run, freeform or structured, is in progress: isProcessing
\* is true exactly while a run is in progress, a parse or a plan generation
\* of the form starts only while it is false, and the step that ends a run
\* either stores the plan of the run in currentPlan or records an error and
\* leaves currentPlan as it was.
C30_OneRun ==
    /\ [](isProcessing <=> pc # "idle")
    /\ [][(ParseStarts \/ PlanStarts) => (~isProcessing /\ isProcessing')]_vars
    /\ [][RunEnds =>
            \/ pc = "returned" /\ currentPlan' = plan /\ error' = ""
            \/ /\ pc = "threw"
               /\ error' # ""
               /\ currentPlan' = currentPlan]_vars

\* a run has ended with an error and the plan of an earlier run is still in
\* currentPlan, with the text and the form both ready for a submit
C30_Witness ==
    /\ pc = "idle"
    /\ ~isProcessing
    /\ error # ""
    /\ currentPlan # NoPlan
    /\ NonBlankLines(freeformInput) # <<>>
    /\ Len(structuredTasks) # 0

====
